---------------------------- MODULE Spec2Model ----------------------------
(***************************************************************************)
(* A model of the Lighthouse MCP server (src/index.ts, src/lighthouse.ts,  *)
(* src/utils.ts): the session kept by the Lighthouse client, the five      *)
(* tools registered on the server, and the computations the tools perform  *)
(* on the responses of the remote portfolio service.                       *)
(*                                                                         *)
(* JavaScript numbers are modelled as exact rationals n/d extended with    *)
(* the three non-finite values a division by zero produces (Infinity,      *)
(* -Infinity, NaN).  Strings that the code inspects (portfolio names and   *)
(* queries) are sequences of one-character strings.                        *)
(***************************************************************************)
EXTENDS Integers, Sequences, FiniteSets, TLC

VARIABLES sessionCookie, sessionFile, task, authTask, result, input

vars == <<sessionCookie, sessionFile, task, authTask, result, input>>

(***************************************************************************)
(* Generic sequence helpers (Array.prototype.map / filter / find / reduce) *)
(***************************************************************************)
Range(s) == {s[i] : i \in 1..Len(s)}

\* All sequences over S of length at most n.
SeqsUpTo(S, n) == UNION {[1..k -> S] : k \in 0..n}

RECURSIVE Concat(_)
\* Array.prototype.flat on a sequence of sequences.
Concat(ss) == IF ss = <<>> THEN <<>> ELSE Head(ss) \o Concat(Tail(ss))

Abs(i) == IF i < 0 THEN -i ELSE i


(***************************************************************************)
(* Numbers: a JavaScript number is a rational n/d (d > 0, in lowest terms) *)
(* or one of Infinity, -Infinity, NaN.                                     *)
(***************************************************************************)
RECURSIVE GCD(_, _)
GCD(a, b) == IF b = 0 THEN a ELSE GCD(b, a % b)

Rat(n, d) ==
    LET g == GCD(Abs(n), d)
    IN  [k |-> "fin", n |-> n \div g, d |-> d \div g]

Num(i) == [k |-> "fin", n |-> i, d |-> 1]
Infinity == [k |-> "inf", n |-> 1, d |-> 0]
NegInfinity == [k |-> "inf", n |-> -1, d |-> 0]
NaN == [k |-> "nan", n |-> 0, d |-> 0]

Sign(i) == IF i > 0 THEN 1 ELSE IF i < 0 THEN -1 ELSE 0

\* a + b
NAdd(a, b) ==
    IF a.k = "nan" \/ b.k = "nan" THEN NaN
    ELSE IF a.k = "inf" /\ b.k = "inf" THEN (IF a.n = b.n THEN a ELSE NaN)
    ELSE IF a.k = "inf" THEN a
    ELSE IF b.k = "inf" THEN b
    ELSE Rat(a.n * b.d + b.n * a.d, a.d * b.d)

\* a * b
NMul(a, b) ==
    IF a.k = "nan" \/ b.k = "nan" THEN NaN
    ELSE IF a.k = "inf" \/ b.k = "inf"
         THEN (IF a.n = 0 \/ b.n = 0 THEN NaN
               ELSE IF Sign(a.n) * Sign(b.n) > 0 THEN Infinity ELSE NegInfinity)
    ELSE Rat(a.n * b.n, a.d * b.d)

\* a - b
NSub(a, b) == NAdd(a, NMul(Num(-1), b))

\* a / b: a division by zero is not a fault, it yields Infinity, -Infinity
\* or (0 / 0) NaN.
NDiv(a, b) ==
    IF a.k = "nan" \/ b.k = "nan" THEN NaN
    ELSE IF a.k = "inf" /\ b.k = "inf" THEN NaN
    ELSE IF a.k = "inf"
         THEN (IF Sign(a.n) * Sign(b.n) >= 0 THEN a ELSE NMul(Num(-1), a))
    ELSE IF b.k = "inf" THEN Num(0)
    ELSE IF b.n = 0
         THEN (IF a.n > 0 THEN Infinity ELSE IF a.n < 0 THEN NegInfinity ELSE NaN)
    ELSE Rat(a.n * b.d * Sign(b.n), a.d * Abs(b.n))

\* a < b on finite numbers.
NLess(a, b) == a.n * b.d < b.n * a.d

(***************************************************************************)
(* src/utils.ts: formatNumber, formatPercentage                            *)
(***************************************************************************)
\* Number.prototype.toLocaleString("en-US", {maximumFractionDigits: 2}): the
\* number rounded to hundredths (halves away from zero); a non-finite number
\* is rendered by its symbol.
ToLocaleString(x) ==
    IF x.k = "nan" THEN [shown |-> "NaN", hundredths |-> 0]
    ELSE IF x.k = "inf"
         THEN [shown |-> IF x.n > 0 THEN "Infinity" ELSE "-Infinity", hundredths |-> 0]
    ELSE [shown |-> "digits",
          hundredths |-> Sign(x.n) * ((200 * Abs(x.n) + x.d) \div (2 * x.d))]

formatPercentage(number) == ToLocaleString(number)

formatNumber(number) ==
    IF number.k # "nan" /\ number.n < 0
    THEN [prefix |-> "-$", digits |-> ToLocaleString(NMul(Num(-1), number))]
    ELSE [prefix |-> "", digits |-> ToLocaleString(number)]

(***************************************************************************)
(* Strings: sequences of one-character strings.                            *)
(***************************************************************************)
UpperChars == <<"A","B","C","D","E","F","G","H","I","J","K","L","M",
                "N","O","P","Q","R","S","T","U","V","W","X","Y","Z">>
LowerChars == <<"a","b","c","d","e","f","g","h","i","j","k","l","m",
                "n","o","p","q","r","s","t","u","v","w","x","y","z">>

\* String.prototype.toLowerCase on one character.
ToLowerChar(c) ==
    IF \E i \in 1..Len(UpperChars) : UpperChars[i] = c
    THEN LowerChars[CHOOSE i \in 1..Len(UpperChars) : UpperChars[i] = c]
    ELSE c

\* String.prototype.toLowerCase.
ToLowerCase(s) == [i \in 1..Len(s) |-> ToLowerChar(s[i])]

\* String.prototype.includes: t occurs in s as a contiguous substring.
Includes(s, t) ==
    \E i \in 0..(Len(s) - Len(t)) : SubSeq(s, i + 1, i + Len(t)) = t

RECURSIVE Join(_, _)
\* Array.prototype.join.
Join(ss, sep) ==
    IF ss = <<>> THEN <<>>
    ELSE IF Len(ss) = 1 THEN ss[1]
    ELSE ss[1] \o sep \o Join(Tail(ss), sep)

\* The argument a caller leaves out (portfolioName?: string).
Undefined == <<"undefined">>

\* JavaScript's !s for an optional string: undefined and "" are falsy.
IsFalsy(s) == s = Undefined \/ s = <<>>

(***************************************************************************)
(* Lighthouse.findPortfolio, after getUserData has returned the list       *)
(***************************************************************************)
\* Array.prototype.find: the index of the first element of s among those at
\* the indexes `hits` (the elements the callback accepts), 0 when there is none.
FindFirst(s, hits) ==
    IF \E i \in 1..Len(s) : i \in hits
    THEN CHOOSE i \in 1..Len(s) : i \in hits /\ \A j \in 1..(i - 1) : j \notin hits
    ELSE 0

Returned(p) == [ok |-> TRUE, slug |-> p.slug, name |-> p.name]

Thrown(msg) == [ok |-> FALSE, error |-> msg]

NoPortfoliosError == [text |-> "The user has no portfolios. Please create one."]

NotFoundError(portfolioName, portfolios) ==
    [text |-> "Portfolio not found. Available portfolios:",
     portfolioName |-> portfolioName,
     available |-> Join([i \in 1..Len(portfolios) |-> portfolios[i].name],
                        <<",", " ">>)]

\* A slip: the partial match is tried before the exact one.
FindPortfolioPartialFirst(portfolios, portfolioName) ==
    LET partial(p) == Includes(ToLowerCase(p.name), ToLowerCase(portfolioName))
        pm == FindFirst(portfolios, {i \in 1..Len(portfolios) : partial(portfolios[i])})
    IN  IF Len(portfolios) <= 0 THEN Thrown(NoPortfoliosError)
        ELSE IF IsFalsy(portfolioName) THEN Returned(portfolios[1])
        ELSE IF pm # 0 THEN Returned(portfolios[pm])
        ELSE Thrown(NotFoundError(portfolioName, portfolios))

FindPortfolio(portfolios, portfolioName) ==
    LET exact(p) == ToLowerCase(p.name) = ToLowerCase(portfolioName)
        partial(p) == Includes(ToLowerCase(p.name), ToLowerCase(portfolioName))
        exactMatch ==
            FindFirst(portfolios, {i \in 1..Len(portfolios) : exact(portfolios[i])})
        partialMatch ==
            FindFirst(portfolios, {i \in 1..Len(portfolios) : partial(portfolios[i])})
    IN  IF Len(portfolios) <= 0 THEN Thrown(NoPortfoliosError)
        ELSE IF IsFalsy(portfolioName) THEN Returned(portfolios[1])
        ELSE IF exactMatch # 0 THEN Returned(portfolios[exactMatch])
        ELSE IF partialMatch # 0 THEN Returned(portfolios[partialMatch])
        ELSE Thrown(NotFoundError(portfolioName, portfolios))

(***************************************************************************)
(* State shared by the specifications                                      *)
(***************************************************************************)
Null == "null"
Idle == [pc |-> "idle"]
NoResult == [kind |-> "none"]
NoInput == [kind |-> "none"]

(***************************************************************************)
(* SpecLocator: findPortfolio over bounded portfolio lists and queries     *)
(***************************************************************************)
MaxPortfolios == 3

Main == <<"M","a","i","n">>
Trading == <<"T","r","a","d","i","n","g">>

NamePool == {<<>>, Main, <<"m","a","i","n">>, <<"M","a">>, Trading}

QueryPool ==
    NamePool \cup {Undefined, <<"r","a","d">>, <<"n","o","p","e">>, <<"m","A">>}

\* The user's portfolios as the remote service lists them: the slug of the
\* i-th entry is i, so slugs are unique.
PortfolioLists ==
    {[i \in 1..Len(ns) |-> [slug |-> i, name |-> ns[i]]] :
        ns \in SeqsUpTo(NamePool, MaxPortfolios)}

InitLocator ==
    /\ sessionCookie = Null
    /\ sessionFile = Null
    /\ task = Idle
    /\ authTask = Idle
    /\ result = NoResult
    /\ input \in {[kind |-> "findPortfolio", portfolios |-> L, portfolioName |-> q] :
                    L \in PortfolioLists, q \in QueryPool}

FindPortfolioCall ==
    /\ input.kind = "findPortfolio"
    /\ result = NoResult
    /\ result' = [kind |-> "findPortfolio",
                  value |-> FindPortfolio(input.portfolios, input.portfolioName)]
    /\ UNCHANGED <<sessionCookie, sessionFile, task, authTask, input>>

NextLocator == FindPortfolioCall

SpecLocator == InitLocator /\ [][NextLocator]_vars

\* The entries of L whose name equals q / contains q, ignoring case.
ExactAt(L, q) == {i \in 1..Len(L) : ToLowerCase(L[i].name) = ToLowerCase(q)}
PartialAt(L, q) ==
    {i \in 1..Len(L) : Includes(ToLowerCase(L[i].name), ToLowerCase(q))}
MinOf(S) == CHOOSE i \in S : \A j \in S : i <= j

RECURSIVE OffsetOf(_, _)
\* Where the i-th name starts in the listing of the names of L: after the
\* earlier names, each followed by the two characters of ", ".
OffsetOf(L, i) == IF i <= 1 THEN 0 ELSE OffsetOf(L, i - 1) + Len(L[i - 1].name) + 2

\* msg lists the names of L in list order, joined by ", ".
ListsAllNames(msg, L) ==
    LET n == Len(L) IN
    /\ Len(msg) = OffsetOf(L, n) + Len(L[n].name)
    /\ \A i \in 1..n :
          SubSeq(msg, OffsetOf(L, i) + 1, OffsetOf(L, i) + Len(L[i].name)) = L[i].name
    /\ \A i \in 1..(n - 1) :
          LET e == OffsetOf(L, i) + Len(L[i].name)
          IN  msg[e + 1] = "," /\ msg[e + 2] = " "

\* What findPortfolio is to answer on a non-empty L, where `absent` says
\* which queries count as no query at all.
LocatorExpected(r, L, q, absent) ==
    IF absent THEN r = Returned(L[1])
    ELSE IF ExactAt(L, q) # {} THEN r = Returned(L[MinOf(ExactAt(L, q))])
    ELSE IF PartialAt(L, q) # {} THEN r = Returned(L[MinOf(PartialAt(L, q))])
    ELSE /\ ~r.ok
         /\ r.error.portfolioName = q
         /\ ListsAllNames(r.error.available, L)

LocatorDone == result.kind = "findPortfolio" /\ Len(input.portfolios) > 0

\* C2 (as stated): on a non-empty list findPortfolio returns L[0] when q is
\* absent (undefined); otherwise the first case-insensitive exact match, else
\* the first case-insensitive substring match, else the not-found error
\* listing every name in list order joined by ", ".
C2_FindPortfolioAsStated ==
    LocatorDone =>
        LocatorExpected(result.value, input.portfolios, input.portfolioName,
                        input.portfolioName = Undefined)

\* C2 (amended): the same, where a query that is absent or the empty string
\* yields L[0]; the returned slug and name belong to one entry of L.
C2_FindPortfolio ==
    LocatorDone =>
        /\ LocatorExpected(result.value, input.portfolios, input.portfolioName,
                           IsFalsy(input.portfolioName))
        /\ result.value.ok =>
              \E i \in 1..Len(input.portfolios) :
                  /\ input.portfolios[i].slug = result.value.slug
                  /\ input.portfolios[i].name = result.value.name

\* C2 witness: an exact match is returned although an earlier entry contains
\* the query as a substring.
C2_Witness ==
    /\ LocatorDone
    /\ input.portfolioName \notin {Undefined, <<>>}
    /\ result.value.ok
    /\ result.value.slug > 1
    /\ \E i \in 1..(result.value.slug - 1) :
          Includes(ToLowerCase(input.portfolios[i].name),
                   ToLowerCase(input.portfolioName))
    /\ result.value.name # input.portfolioName

(***************************************************************************)
(* getLighthousePortfolio: the computation on the fetched snapshot         *)
(* (src/index.ts:130-171)                                                  *)
(***************************************************************************)
\* Array.prototype.sort with a comparator that orders by an integer key,
\* ascending.  The sort is stable: elements with equal keys keep their order.
StableSort(s, key) ==
    LET n == Len(s)
        pos(i) == 1 + Cardinality({j \in 1..n :
                        key[j] < key[i] \/ (key[j] = key[i] /\ j < i)})
    IN  [p \in 1..n |-> s[CHOOSE i \in 1..n : pos(i) = p]]

\* A Map<string, number> is the sequence of its entries in insertion order.
MapHas(m, key) == \E i \in 1..Len(m) : m[i].key = key

\* Map.prototype.get(key) || 0
MapGetOr0(m, key) ==
    IF MapHas(m, key) THEN m[CHOOSE i \in 1..Len(m) : m[i].key = key].value ELSE 0

\* Map.prototype.set: an existing key keeps its place, a new key goes last.
MapSet(m, key, value) ==
    IF MapHas(m, key)
    THEN [i \in 1..Len(m) |-> IF m[i].key = key THEN [key |-> key, value |-> value]
                                               ELSE m[i]]
    ELSE Append(m, [key |-> key, value |-> value])

\* data.positions.flatMap(position => position.assets)
AllAssets(data) == Concat([p \in 1..Len(data.positions) |-> data.positions[p].assets])

RECURSIVE AccumulateTypes(_, _)
\* The forEach loops over positions and assets, adding each asset's usdValue
\* to the entry of its type.
AccumulateTypes(assets, m) ==
    IF assets = <<>> THEN m
    ELSE LET asset == Head(assets)
             currentValue == MapGetOr0(m, asset.type)
         IN  AccumulateTypes(Tail(assets),
                             MapSet(m, asset.type, currentValue + asset.usdValue))

\* A slip: the percentage is taken of the recomputed sum of the values.
AssetTypeBreakdownOfSum(data) ==
    LET assetTypeMap == AccumulateTypes(AllAssets(data), <<>>)
        sum == MapGetOr0(AccumulateTypes(
                   [i \in 1..Len(AllAssets(data)) |->
                       [AllAssets(data)[i] EXCEPT !.type = "*"]], <<>>), "*")
        entries == [i \in 1..Len(assetTypeMap) |->
                      [type |-> assetTypeMap[i].key,
                       value |-> assetTypeMap[i].value,
                       percentage |-> NMul(NDiv(Num(assetTypeMap[i].value), Num(sum)),
                                           Num(100))]]
    IN  StableSort(entries, [i \in 1..Len(entries) |-> -entries[i].value])

\* A slip: the ratio is not scaled to a percentage.
AssetTypeBreakdownUnscaled(data) ==
    LET assetTypeMap == AccumulateTypes(AllAssets(data), <<>>)
        entries == [i \in 1..Len(assetTypeMap) |->
                      [type |-> assetTypeMap[i].key,
                       value |-> assetTypeMap[i].value,
                       percentage |-> NDiv(Num(assetTypeMap[i].value),
                                           Num(data.usdValue))]]
    IN  StableSort(entries, [i \in 1..Len(entries) |-> -entries[i].value])

AssetTypeBreakdown(data) ==
    LET totalUsdValue == data.usdValue
        assetTypeMap == AccumulateTypes(AllAssets(data), <<>>)
        entries == [i \in 1..Len(assetTypeMap) |->
                      [type |-> assetTypeMap[i].key,
                       value |-> assetTypeMap[i].value,
                       percentage |-> NMul(NDiv(Num(assetTypeMap[i].value),
                                                Num(totalUsdValue)),
                                           Num(100))]]
    IN  StableSort(entries, [i \in 1..Len(entries) |-> -entries[i].value])

MajorThreshold == 1000

MajorProjection(asset) ==
    [name |-> asset.name, symbol |-> asset.symbol,
     value |-> asset.usdValue, amount |-> asset.amount]

\* A slip: an asset worth exactly the threshold is left out.
MajorAssetsStrict(data) ==
    LET major(asset) == asset.usdValue > MajorThreshold
        kept == SelectSeq(AllAssets(data), major)
        projected == [i \in 1..Len(kept) |-> MajorProjection(kept[i])]
    IN  StableSort(projected, [i \in 1..Len(projected) |-> -projected[i].value])

MajorAssets(data) ==
    LET major(asset) == asset.usdValue >= MajorThreshold
        perPosition == [p \in 1..Len(data.positions) |->
                          LET kept == SelectSeq(data.positions[p].assets, major)
                          IN  [i \in 1..Len(kept) |-> MajorProjection(kept[i])]]
        flat == Concat(perPosition)
    IN  StableSort(flat, [i \in 1..Len(flat) |-> -flat[i].value])

PortfolioSummary(data) ==
    [totalUsdValue |-> data.usdValue,
     wallets |-> [i \in 1..Len(data.accounts) |->
                    [id |-> data.accounts[i].id, name |-> data.accounts[i].name,
                     type |-> data.accounts[i].type]],
     assetTypeBreakdown |-> AssetTypeBreakdown(data),
     majorAssets |-> MajorAssets(data)]

(***************************************************************************)
(* SpecPortfolio: the snapshot computation over bounded snapshots          *)
(***************************************************************************)
MaxAssets == 3
MaxPositions == 2

\* The assets a position may hold.  Two types can tie in total value
\* (STABLECOIN 999 + 1000 against NFT 1999, STABLECOIN 1000 against NATIVE
\* 1000) and the values lie on both sides of the major-holding threshold.
AssetKinds ==
    {[symbol |-> "USDC", type |-> "STABLECOIN", amount |-> 998, usdValue |-> 999],
     [symbol |-> "DAI", type |-> "STABLECOIN", amount |-> 1001, usdValue |-> 1000],
     [symbol |-> "ETH", type |-> "NATIVE", amount |-> 1, usdValue |-> 2000],
     [symbol |-> "SOL", type |-> "NATIVE", amount |-> 10, usdValue |-> 1000],
     [symbol |-> "PUNK", type |-> "NFT", amount |-> 2, usdValue |-> 1999]}

RECURSIVE SumUsd(_)
SumUsd(assets) == IF assets = <<>> THEN 0 ELSE Head(assets).usdValue + SumUsd(Tail(assets))

\* The positions holding the assets `kinds`, the j-th of them in position
\* posOf[j] (posOf is non-decreasing).  An asset is named by its place:
\* <<p, i>> is the i-th asset of position p.
PositionsOf(kinds, np, posOf) ==
    [p \in 1..np |->
        LET mine == {j \in 1..Len(kinds) : posOf[j] = p}
            start == Cardinality({j \in 1..Len(kinds) : posOf[j] < p})
            assets == [i \in 1..Cardinality(mine) |->
                          [name |-> <<p, i>>,
                           symbol |-> kinds[start + i].symbol,
                           type |-> kinds[start + i].type,
                           amount |-> kinds[start + i].amount,
                           usdValue |-> kinds[start + i].usdValue]]
        IN  [id |-> p, usdValue |-> SumUsd(assets), assets |-> assets]]

OneAccount == <<[id |-> "acc-1", name |-> "Ledger", type |-> "WALLET"]>>

\* The snapshot's own total is the sum of its assets' values, or differs from
\* it (derivative positions), or is zero; a snapshot holding nothing is worth
\* nothing.
SnapshotTotals(kinds) ==
    IF SumUsd(kinds) = 0 THEN {0} ELSE {0, SumUsd(kinds), SumUsd(kinds) + 1000}

\* Every snapshot of at most MaxAssets assets held in at most MaxPositions
\* positions (a position may be empty).
InitPortfolio ==
    /\ sessionCookie = Null
    /\ sessionFile = Null
    /\ task = Idle
    /\ authTask = Idle
    /\ result = NoResult
    /\ \E kinds \in SeqsUpTo(AssetKinds, MaxAssets), np \in 0..MaxPositions :
          \E posOf \in [1..Len(kinds) -> 1..np], total \in SnapshotTotals(kinds) :
              /\ \A j \in 1..(Len(kinds) - 1) : posOf[j] <= posOf[j + 1]
              /\ input = [kind |-> "snapshot",
                          data |-> [usdValue |-> total, accounts |-> OneAccount,
                                    positions |-> PositionsOf(kinds, np, posOf)]]

\* getLighthousePortfolio.execute from the fetched snapshot to the summary
\* that is rendered.
SummarisePortfolio ==
    /\ input.kind = "snapshot"
    /\ result = NoResult
    /\ result' = [kind |-> "portfolio", value |-> PortfolioSummary(input.data)]
    /\ UNCHANGED <<sessionCookie, sessionFile, task, authTask, input>>

NextPortfolio == SummarisePortfolio

SpecPortfolio == InitPortfolio /\ [][NextPortfolio]_vars

PortfolioDone == result.kind = "portfolio"

\* The places <<p, i>> of the snapshot's assets, and the asset at a place.
Slots(data) ==
    {<<p, i>> : p \in 1..Len(data.positions), i \in 1..MaxAssets} \cap
    {sl \in (1..Len(data.positions)) \X (1..MaxAssets) :
        sl[2] <= Len(data.positions[sl[1]].assets)}
AssetAt(data, sl) == data.positions[sl[1]].assets[sl[2]]

\* Encounter order: position order, then asset order inside the position.
Earlier(a, b) == a[1] < b[1] \/ (a[1] = b[1] /\ a[2] < b[2])

RECURSIVE SlotSum(_, _)
\* The sum of usdValue over the assets at the places S.
SlotSum(data, S) ==
    IF S = {} THEN 0
    ELSE LET sl == CHOOSE x \in S : TRUE
         IN  AssetAt(data, sl).usdValue + SlotSum(data, S \ {sl})

SlotsOfType(data, t) == {sl \in Slots(data) : AssetAt(data, sl).type = t}

\* The first place at which an asset of type t is encountered.
FirstOfType(data, t) ==
    CHOOSE sl \in SlotsOfType(data, t) :
        \A o \in SlotsOfType(data, t) : o = sl \/ Earlier(sl, o)

\* C3: the asset-type breakdown has exactly one entry per asset type that
\* occurs; an entry's value is the sum of usdValue of the assets of its type;
\* its percentage is value / snapshot.usdValue * 100; the entries are in
\* descending order of value, equal values in order of first encounter.
C3_AssetTypeBreakdown ==
    PortfolioDone =>
        LET data == input.data
            bd == result.value.assetTypeBreakdown
        IN  /\ {bd[i].type : i \in 1..Len(bd)} =
                  {AssetAt(data, sl).type : sl \in Slots(data)}
            /\ \A i, j \in 1..Len(bd) : i # j => bd[i].type # bd[j].type
            /\ \A i \in 1..Len(bd) :
                  bd[i].value = SlotSum(data, SlotsOfType(data, bd[i].type))
            /\ SlotSum(data, Slots(data)) =
                  SlotSum([positions |-> <<[assets |->
                              [i \in 1..Len(bd) |-> [usdValue |-> bd[i].value]]]>>],
                          {<<1, i>> : i \in 1..Len(bd)})
            /\ \A i \in 1..Len(bd) :
                  IF data.usdValue # 0
                  THEN bd[i].percentage = Rat(100 * bd[i].value, data.usdValue)
                  ELSE bd[i].percentage.k # "fin"
            /\ \A i, j \in 1..Len(bd) :
                  i < j => \/ bd[i].value > bd[j].value
                           \/ /\ bd[i].value = bd[j].value
                              /\ Earlier(FirstOfType(data, bd[i].type),
                                         FirstOfType(data, bd[j].type))

\* C3 witness: two types tie in value and a third is larger, and the snapshot's
\* own total differs from the sum of the values.
C3_Witness ==
    /\ PortfolioDone
    /\ Len(result.value.assetTypeBreakdown) = 3
    /\ result.value.assetTypeBreakdown[2].value = result.value.assetTypeBreakdown[3].value
    /\ result.value.assetTypeBreakdown[1].value > result.value.assetTypeBreakdown[2].value
    /\ input.data.usdValue # SlotSum(input.data, Slots(input.data))
    /\ input.data.usdValue # 0

RECURSIVE ScaledSum(_, _)
\* The sum of the finite percentages of bd, in units of 1 / total percent
\* (every percentage is a multiple of 1 / total).
ScaledSum(bd, total) ==
    IF bd = <<>> THEN 0
    ELSE Head(bd).percentage.n * (total \div Head(bd).percentage.d)
         + ScaledSum(Tail(bd), total)

PercentagesAreOverTotal(bd, total) ==
    \A i \in 1..Len(bd) :
        bd[i].percentage.k = "fin" /\ total % bd[i].percentage.d = 0

\* C4 (as stated): when snapshot.usdValue > 0 the percentages of the breakdown
\* sum to 100, here within one percentage point.
C4_PercentagesSumTo100 ==
    (PortfolioDone /\ input.data.usdValue > 0) =>
        LET bd == result.value.assetTypeBreakdown
            total == input.data.usdValue
        IN  /\ PercentagesAreOverTotal(bd, total)
            /\ Abs(ScaledSum(bd, total) - 100 * total) <= total

\* C4 (amended): when snapshot.usdValue > 0 the percentages of the breakdown
\* sum to (sum of all asset usdValues) / snapshot.usdValue * 100, which is 100
\* when the asset values sum to the snapshot's own total.
C4_PercentagesSumToShareOfTotal ==
    (PortfolioDone /\ input.data.usdValue > 0) =>
        LET bd == result.value.assetTypeBreakdown
            total == input.data.usdValue
        IN  /\ PercentagesAreOverTotal(bd, total)
            /\ ScaledSum(bd, total) = 100 * SlotSum(input.data, Slots(input.data))
            /\ SlotSum(input.data, Slots(input.data)) = total =>
                  ScaledSum(bd, total) = 100 * total

\* C4 witness: a breakdown of several types whose percentages sum to 100.
C4_Witness ==
    /\ PortfolioDone
    /\ input.data.usdValue > 0
    /\ Len(result.value.assetTypeBreakdown) >= 2
    /\ ScaledSum(result.value.assetTypeBreakdown, input.data.usdValue)
          = 100 * input.data.usdValue

MajorSlots(data) == {sl \in Slots(data) : AssetAt(data, sl).usdValue >= 1000}

\* C5: the major holdings are exactly the assets with usdValue >= 1000, each
\* as {name, symbol, value, amount} of that asset, in descending order of
\* value, equal values in encounter order.
C5_MajorHoldings ==
    PortfolioDone =>
        LET data == input.data
            majors == result.value.majorAssets
        IN  /\ Len(majors) = Cardinality(MajorSlots(data))
            /\ {majors[k].name : k \in 1..Len(majors)} = MajorSlots(data)
            /\ \A k \in 1..Len(majors) :
                  LET asset == AssetAt(data, majors[k].name)
                  IN  /\ majors[k] = [name |-> asset.name, symbol |-> asset.symbol,
                                      value |-> asset.usdValue, amount |-> asset.amount]
                      /\ majors[k].value >= 1000
            /\ \A k, l \in 1..Len(majors) :
                  k < l => \/ majors[k].value > majors[l].value
                           \/ /\ majors[k].value = majors[l].value
                              /\ Earlier(majors[k].name, majors[l].name)

\* C5 witness: an asset below the threshold is left out, one exactly at the
\* threshold is kept, and two kept assets of equal value come from different
\* positions.
C5_Witness ==
    /\ PortfolioDone
    /\ \E sl \in Slots(input.data) : AssetAt(input.data, sl).usdValue < 1000
    /\ \E k, l \in 1..Len(result.value.majorAssets) :
          /\ k < l
          /\ result.value.majorAssets[k].value = 1000
          /\ result.value.majorAssets[l].value = 1000
          /\ result.value.majorAssets[k].name[1] # result.value.majorAssets[l].name[1]

(***************************************************************************)
(* getLighthouseYieldData: the computation on the fetched yield response   *)
(* (src/index.ts:264-367)                                                  *)
(***************************************************************************)
\* A slip: the accumulator is overwritten instead of added to.
SumNumsKeepLast(xs) == IF xs = <<>> THEN Num(0) ELSE xs[Len(xs)]

RECURSIVE SumNums(_)
\* Array.prototype.reduce((acc, x) => acc + x, 0)
SumNums(xs) == IF xs = <<>> THEN Num(0) ELSE NAdd(SumNums(SubSeq(xs, 1, Len(xs) - 1)), xs[Len(xs)])

TypeError == [name |-> "TypeError",
              text |-> "Cannot read properties of undefined (reading 'apy')"]

\* pool.receive[index].apy (pool.pay[index].apy) is read for every index of
\* pool.supply (pool.borrow): reading .apy of a missing element throws.
PoolThrows(pool) ==
    \/ \E index \in 1..Len(pool.supply) : index > Len(pool.receive)
    \/ \E index \in 1..Len(pool.borrow) : index > Len(pool.pay)

ReceiveUSD(pool) ==
    [index \in 1..Len(pool.supply) |->
        LET supply == pool.supply[index] IN
        [asset |-> supply.asset.symbol,
         assetUSD |-> NMul(Num(supply.amount), Num(supply.asset.price)),
         apy |-> pool.receive[index].apy,
         receiveUSD |-> NMul(NMul(NDiv(Num(pool.receive[index].apy), Num(100)),
                                  Num(supply.amount)),
                             Num(supply.asset.price))]]

PayUSD(pool) ==
    [index \in 1..Len(pool.borrow) |->
        LET borrow == pool.borrow[index] IN
        [asset |-> borrow.asset.symbol,
         assetUSD |-> NMul(Num(borrow.amount), Num(borrow.asset.price)),
         apy |-> pool.pay[index].apy,
         payUSD |-> NMul(NMul(NDiv(Num(pool.pay[index].apy), Num(100)),
                              Num(borrow.amount)),
                         Num(borrow.asset.price))]]

\* A slip: the cost of the borrow legs is added instead of subtracted.
NetYieldUSDAdded(receiveUSD, payUSD) ==
    NAdd(SumNums([i \in 1..Len(receiveUSD) |-> receiveUSD[i].receiveUSD]),
         SumNums([i \in 1..Len(payUSD) |-> payUSD[i].payUSD]))

NetYieldUSD(receiveUSD, payUSD) ==
    NSub(SumNums([i \in 1..Len(receiveUSD) |-> receiveUSD[i].receiveUSD]),
         SumNums([i \in 1..Len(payUSD) |-> payUSD[i].payUSD]))

\* formattedYieldDataWithUsdValues: one entry per pool.
FormattedPool(pool) ==
    [name |-> pool.name,
     receiveUSD |-> ReceiveUSD(pool),
     payUSD |-> PayUSD(pool),
     netYieldUSD |-> NetYieldUSD(ReceiveUSD(pool), PayUSD(pool))]

\* The value handed to formatPercentage for "Avg APY".
AvgApyShown(totalYieldUSD, totalSupplyUSD) == NDiv(totalYieldUSD, totalSupplyUSD)

\* What execute computes from the yield response: it throws, or it returns
\* the per-pool figures and the totals it renders.
YieldReport(yieldData) ==
    IF \E i \in 1..Len(yieldData.pools) : PoolThrows(yieldData.pools[i])
    THEN [ok |-> FALSE, error |-> TypeError]
    ELSE LET pools == [i \in 1..Len(yieldData.pools) |-> FormattedPool(yieldData.pools[i])]
             totalSupplyUSD ==
                 SumNums([i \in 1..Len(pools) |->
                     SumNums([j \in 1..Len(pools[i].receiveUSD) |->
                                 pools[i].receiveUSD[j].assetUSD])])
             totalBorrowUSD ==
                 SumNums([i \in 1..Len(pools) |->
                     SumNums([j \in 1..Len(pools[i].payUSD) |->
                                 pools[i].payUSD[j].assetUSD])])
             totalYieldUSD == SumNums([i \in 1..Len(pools) |-> pools[i].netYieldUSD])
         IN  [ok |-> TRUE,
              pools |-> pools,
              totalSupplyUSD |-> totalSupplyUSD,
              totalBorrowUSD |-> totalBorrowUSD,
              totalYieldUSD |-> totalYieldUSD,
              avgApy |-> formatPercentage(AvgApyShown(totalYieldUSD, totalSupplyUSD))]

(***************************************************************************)
(* SpecYield: the yield computation over bounded yield responses           *)
(***************************************************************************)
MaxPools == 2
MaxLegs == 4

\* The lengths of a pool's four arrays.
PoolShapes ==
    {sh \in [supply : 0..MaxLegs, receive : 0..MaxLegs,
             borrow : 0..MaxLegs, pay : 0..MaxLegs] :
        sh.supply + sh.receive + sh.borrow + sh.pay <= MaxLegs}

RECURSIVE LegCount(_)
LegCount(shapes) ==
    IF shapes = <<>> THEN 0
    ELSE Head(shapes).supply + Head(shapes).receive + Head(shapes).borrow
         + Head(shapes).pay + LegCount(Tail(shapes))

\* The k-th pool of a response, its arrays of the lengths `sh`.  The figures
\* differ from leg to leg and from pool to pool.
PoolOf(k, sh) ==
    [name |-> k,
     supply |-> [i \in 1..sh.supply |->
                    [asset |-> [symbol |-> "USDC", price |-> k], amount |-> 100 * i]],
     receive |-> [i \in 1..sh.receive |-> [apy |-> 5 * i + k - 1]],
     borrow |-> [i \in 1..sh.borrow |->
                    [asset |-> [symbol |-> "ETH", price |-> 20 * k], amount |-> i]],
     pay |-> [i \in 1..sh.pay |-> [apy |-> 4 * i]]]

\* Every response of at most MaxPools pools with at most MaxLegs array
\* elements in all.
InitYield ==
    /\ sessionCookie = Null
    /\ sessionFile = Null
    /\ task = Idle
    /\ authTask = Idle
    /\ result = NoResult
    /\ \E np \in 0..MaxPools :
          \E shapes \in [1..np -> PoolShapes] :
              /\ LegCount(shapes) <= MaxLegs
              /\ input = [kind |-> "yield",
                          data |-> [pools |-> [k \in 1..np |-> PoolOf(k, shapes[k])]]]

ComputeYield ==
    /\ input.kind = "yield"
    /\ result = NoResult
    /\ result' = [kind |-> "yield", value |-> YieldReport(input.data)]
    /\ UNCHANGED <<sessionCookie, sessionFile, task, authTask, input>>

NextYield == ComputeYield

SpecYield == InitYield /\ [][NextYield]_vars

YieldDone == result.kind = "yield"

Mismatched(pool) ==
    Len(pool.supply) # Len(pool.receive) \/ Len(pool.borrow) # Len(pool.pay)

\* C6: a pool whose supply and receive arrays, or whose borrow and pay arrays,
\* differ in length makes the yield computation end in an error; no result is
\* produced from such a pool.
C6_MismatchIsAnError ==
    (YieldDone /\ \E k \in 1..Len(input.data.pools) : Mismatched(input.data.pools[k]))
        => ~result.value.ok

RECURSIVE SumInts(_)
SumInts(xs) == IF xs = <<>> THEN 0 ELSE Head(xs) + SumInts(Tail(xs))

\* apy * amount * price of every paired leg, in hundredths of a dollar a year.
LegYields(amounts, apys) ==
    [i \in 1..Len(amounts) |-> apys[i].apy * amounts[i].amount * amounts[i].asset.price]

\* C7: for a pool with len(supply) = len(receive) and len(borrow) = len(pay),
\* receiveUSD[i] = (receive[i].apy / 100) * supply[i].amount * supply[i].asset.price,
\* payUSD[i] likewise from pay[i] and borrow[i], and netYieldUSD =
\* sum(receiveUSD) - sum(payUSD), which is sum(receiveUSD) without borrow legs.
C7_PoolYield ==
    (YieldDone /\ result.value.ok) =>
        \A k \in 1..Len(input.data.pools) :
            LET pool == input.data.pools[k]
                out == result.value.pools[k]
            IN  ~Mismatched(pool) =>
                  /\ Len(out.receiveUSD) = Len(pool.supply)
                  /\ Len(out.payUSD) = Len(pool.borrow)
                  /\ \A i \in 1..Len(pool.supply) :
                        out.receiveUSD[i].receiveUSD =
                            Rat(LegYields(pool.supply, pool.receive)[i], 100)
                  /\ \A i \in 1..Len(pool.borrow) :
                        out.payUSD[i].payUSD =
                            Rat(LegYields(pool.borrow, pool.pay)[i], 100)
                  /\ out.netYieldUSD =
                        Rat(SumInts(LegYields(pool.supply, pool.receive))
                            - SumInts(LegYields(pool.borrow, pool.pay)), 100)
                  /\ pool.borrow = <<>> =>
                        out.netYieldUSD =
                            Rat(SumInts(LegYields(pool.supply, pool.receive)), 100)

\* C7 witness: a response with a pool whose supply and borrow legs are all
\* paired, the borrow legs lowering its net yield.
C7_Witness ==
    /\ YieldDone
    /\ result.value.ok
    /\ \E k \in 1..Len(input.data.pools) :
          LET pool == input.data.pools[k]
          IN  /\ ~Mismatched(pool)
              /\ pool.supply # <<>> /\ pool.borrow # <<>>
              /\ result.value.pools[k].netYieldUSD #
                    Rat(SumInts(LegYields(pool.supply, pool.receive)), 100)

\* The orders in which n pools can come.
PoolOrders(n) == {p \in [1..n -> 1..n] : \A i, j \in 1..n : i # j => p[i] # p[j]}

TotalSupplyOf(yieldData) ==
    SumInts([k \in 1..Len(yieldData.pools) |->
        SumInts([i \in 1..Len(yieldData.pools[k].supply) |->
            yieldData.pools[k].supply[i].amount * yieldData.pools[k].supply[i].asset.price])])

\* C8: when totalSupplyUSD # 0 the reported average APY is
\* totalYieldUSD / totalSupplyUSD * 100.
C8_AvgApyIsPercentage ==
    (YieldDone /\ result.value.ok /\ TotalSupplyOf(input.data) # 0) =>
        /\ result.value.totalSupplyUSD = Num(TotalSupplyOf(input.data))
        /\ result.value.avgApy =
              ToLocaleString(NMul(NDiv(result.value.totalYieldUSD,
                                       result.value.totalSupplyUSD), Num(100)))

(***************************************************************************)
(* getLighthousePerformanceData: the rendering of the fetched performance  *)
(* response (src/index.ts:398-452)                                         *)
(***************************************************************************)
TopN == 5

Min(a, b) == IF a <= b THEN a ELSE b

\* Array.prototype.slice(0, n)
Slice0(s, n) == SubSeq(s, 1, Min(n, Len(s)))

\* .sort((a, b) => b.diffUsdValue - a.diffUsdValue)
SortDescending(items) ==
    StableSort(items, [i \in 1..Len(items) |-> -items[i].diffUsdValue])

\* .sort((a, b) => a.diffUsdValue - b.diffUsdValue)
SortAscending(items) ==
    StableSort(items, [i \in 1..Len(items) |-> items[i].diffUsdValue])

\* The line rendered for one gainer or loser.
GainerLoserLine(item) ==
    [symbol |-> item.symbol,
     diffUsdValue |-> formatNumber(Num(item.diffUsdValue)),
     percent |-> formatPercentage(NDiv(Num(item.diffUsdValue), Num(item.prevUsdValue)))]

\* A slip: the list is cut to five before it is sorted.
GainersShownCutFirst(gainers) ==
    LET top == SortDescending(Slice0(gainers, TopN))
    IN  [i \in 1..Len(top) |-> GainerLoserLine(top[i])]

GainersShown(gainers) ==
    LET top == Slice0(SortDescending(gainers), TopN)
    IN  [i \in 1..Len(top) |-> GainerLoserLine(top[i])]

LosersShown(losers) ==
    LET top == Slice0(SortAscending(losers), TopN)
    IN  [i \in 1..Len(top) |-> GainerLoserLine(top[i])]

ChangeByTypeShown(changeByType) ==
    LET sorted == SortDescending(changeByType)
    IN  [i \in 1..Len(sorted) |->
            [type |-> sorted[i].type,
             diffUsdValue |-> formatNumber(Num(sorted[i].diffUsdValue)),
             percent |-> formatPercentage(NDiv(Num(sorted[i].prevUsdValue),
                                               Num(sorted[i].currUsdValue)))]]

PerformanceReport(performanceData) ==
    [periodReturn |->
        [absolute |-> formatNumber(Num(performanceData.usdValueChange)),
         percent |-> formatPercentage(
             NMul(NDiv(Num(performanceData.usdValueChange),
                       Num(performanceData.lastSnapshotUsdValue)), Num(100)))],
     changeByType |-> ChangeByTypeShown(performanceData.changeByType),
     gainers |-> GainersShown(performanceData.gainers),
     losers |-> LosersShown(performanceData.losers)]

\* The response object once execute has run: Array.prototype.sort sorts the
\* array it is called on in place.
PerformanceDataAfter(performanceData) ==
    [performanceData EXCEPT !.changeByType = SortDescending(@),
                            !.gainers = SortDescending(@),
                            !.losers = SortAscending(@)]

(***************************************************************************)
(* SpecPerformance: the rendering over bounded performance responses       *)
(***************************************************************************)
MaxItems == 6

\* The figures of a gainer or loser: two kinds tie in diffUsdValue, one has
\* no previous value.
ItemKinds ==
    {[prevUsdValue |-> 100, currUsdValue |-> 130, diffUsdValue |-> 30],
     [prevUsdValue |-> 0, currUsdValue |-> 30, diffUsdValue |-> 30],
     [prevUsdValue |-> 50, currUsdValue |-> 30, diffUsdValue |-> -20]}

\* The items of one list, named by the list and their place in it.
ItemsOf(list, kinds) ==
    [i \in 1..Len(kinds) |->
        [symbol |-> <<list, i>>,
         prevUsdValue |-> kinds[i].prevUsdValue,
         currUsdValue |-> kinds[i].currUsdValue,
         diffUsdValue |-> kinds[i].diffUsdValue]]

PeriodKinds ==
    {[usdValueChange |-> 50, lastSnapshotUsdValue |-> 1000],
     [usdValueChange |-> -50, lastSnapshotUsdValue |-> 0],
     [usdValueChange |-> 0, lastSnapshotUsdValue |-> 0]}

SampleChangeByType ==
    <<[type |-> "STABLECOIN", prevUsdValue |-> 50, currUsdValue |-> 50, diffUsdValue |-> 0],
      [type |-> "NATIVE", prevUsdValue |-> 100, currUsdValue |-> 130, diffUsdValue |-> 30],
      [type |-> "NFT", prevUsdValue |-> 20, currUsdValue |-> 0, diffUsdValue |-> -20]>>

\* Every response with at most MaxItems gainers and losers in all.
InitPerformance ==
    /\ sessionCookie = Null
    /\ sessionFile = Null
    /\ task = Idle
    /\ authTask = Idle
    /\ result = NoResult
    /\ \E kinds \in SeqsUpTo(ItemKinds, MaxItems), period \in PeriodKinds :
          \E g \in 0..Len(kinds) :
              input = [kind |-> "performance",
                       data |-> [usdValueChange |-> period.usdValueChange,
                                 lastSnapshotUsdValue |-> period.lastSnapshotUsdValue,
                                 changeByType |-> SampleChangeByType,
                                 gainers |-> ItemsOf("G", SubSeq(kinds, 1, g)),
                                 losers |-> ItemsOf("L", SubSeq(kinds, g + 1, Len(kinds)))]]

RenderPerformance ==
    /\ input.kind = "performance"
    /\ result = NoResult
    /\ result' = [kind |-> "performance",
                  value |-> PerformanceReport(input.data),
                  data |-> PerformanceDataAfter(input.data)]
    /\ UNCHANGED <<sessionCookie, sessionFile, task, authTask, input>>

NextPerformance == RenderPerformance

SpecPerformance == InitPerformance /\ [][NextPerformance]_vars

PerformanceDone == result.kind = "performance"

\* The item of `items` that a rendered line shows.
ItemOf(items, line) == items[CHOOSE i \in 1..Len(items) : items[i].symbol = line.symbol]

\* shown renders at most five items of `items`, none of them twice, all of
\* them when there are five or fewer, each at least as far in direction dir
\* (1: largest first, -1: smallest first) as every item not shown, in order.
TopFive(shown, items, dir) ==
    /\ Len(shown) = (IF Len(items) <= 5 THEN Len(items) ELSE 5)
    /\ \A k \in 1..Len(shown) : \E i \in 1..Len(items) : items[i].symbol = shown[k].symbol
    /\ \A k, l \in 1..Len(shown) : k # l => shown[k].symbol # shown[l].symbol
    /\ \A k \in 1..Len(shown) :
          shown[k].diffUsdValue = formatNumber(Num(ItemOf(items, shown[k]).diffUsdValue))
    /\ \A k \in 1..Len(shown) : \A i \in 1..Len(items) :
          (\A l \in 1..Len(shown) : shown[l].symbol # items[i].symbol) =>
              dir * ItemOf(items, shown[k]).diffUsdValue >= dir * items[i].diffUsdValue
    /\ \A k, l \in 1..Len(shown) :
          k < l => dir * ItemOf(items, shown[k]).diffUsdValue
                       >= dir * ItemOf(items, shown[l]).diffUsdValue

\* C9: the displayed gainers are at most 5 items of resp.gainers, each with
\* diffUsdValue >= that of every gainer not displayed, in descending order;
\* the displayed losers are at most 5 items of resp.losers, each with
\* diffUsdValue <= that of every loser not displayed, in ascending order; a
\* list of 5 or fewer items is displayed whole.
C9_TopGainersLosers ==
    PerformanceDone =>
        /\ TopFive(result.value.gainers, input.data.gainers, 1)
        /\ TopFive(result.value.losers, input.data.losers, -1)

\* C9 witness: of six gainers the one left out is not the last of the
\* response, and two of those displayed tie.
C9_Witness ==
    /\ PerformanceDone
    /\ Len(input.data.gainers) > 5
    /\ Len(result.value.gainers) = 5
    /\ \E i \in 1..5 : \A k \in 1..5 :
          result.value.gainers[k].symbol # input.data.gainers[i].symbol
    /\ input.data.gainers[6].prevUsdValue # input.data.gainers[5].prevUsdValue

\* C10: for every displayed gainer and loser with prevUsdValue # 0 the percent
\* shown is diffUsdValue / prevUsdValue * 100.
C10_ItemPercent ==
    PerformanceDone =>
        /\ \A k \in 1..Len(result.value.gainers) :
              LET item == ItemOf(input.data.gainers, result.value.gainers[k])
              IN  item.prevUsdValue # 0 =>
                      result.value.gainers[k].percent =
                          ToLocaleString(Rat(100 * item.diffUsdValue, item.prevUsdValue))
        /\ \A k \in 1..Len(result.value.losers) :
              LET item == ItemOf(input.data.losers, result.value.losers[k])
              IN  item.prevUsdValue # 0 =>
                      result.value.losers[k].percent =
                          ToLocaleString(Rat(100 * item.diffUsdValue, item.prevUsdValue))

\* C11: no computation changes the response it is given; after the
\* performance tool has run, the response's changeByType, gainers and losers
\* arrays hold the same elements in the same order as when they were fetched.
C11_ResponseUnchanged ==
    PerformanceDone =>
        /\ result.data.changeByType = input.data.changeByType
        /\ result.data.gainers = input.data.gainers
        /\ result.data.losers = input.data.losers

\* The rendition the specification asks for a percentage whose divisor is 0.
NotAvailable == "n/a"

\* C12: a percentage whose divisor is zero (lastSnapshotUsdValue = 0 in the
\* period return, prevUsdValue = 0 for a displayed gainer or loser) is
\* rendered as "n/a"; no infinite or not-a-number value is rendered as if it
\* were a percentage.
C12_ZeroDivisorShowsNotAvailable ==
    PerformanceDone =>
        /\ input.data.lastSnapshotUsdValue = 0 =>
              result.value.periodReturn.percent.shown = NotAvailable
        /\ \A k \in 1..Len(result.value.gainers) :
              ItemOf(input.data.gainers, result.value.gainers[k]).prevUsdValue = 0 =>
                  result.value.gainers[k].percent.shown = NotAvailable
        /\ \A k \in 1..Len(result.value.losers) :
              ItemOf(input.data.losers, result.value.losers[k]).prevUsdValue = 0 =>
                  result.value.losers[k].percent.shown = NotAvailable
        /\ result.value.periodReturn.percent.shown \notin {"NaN", "Infinity", "-Infinity"}
        /\ \A k \in 1..Len(result.value.gainers) :
              result.value.gainers[k].percent.shown \notin {"NaN", "Infinity", "-Infinity"}
        /\ \A k \in 1..Len(result.value.losers) :
              result.value.losers[k].percent.shown \notin {"NaN", "Infinity", "-Infinity"}

(***************************************************************************)
(* Spec: the server.  One data tool call and one session operation         *)
(* (authenticate, logout) may be in flight at a time; each action runs a   *)
(* handler from one awaited I/O operation to the next.                     *)
(***************************************************************************)
\* The values /lh_session=([^;]+)/ may capture from a set-cookie header; the
\* pattern takes everything up to the semicolon, white space included.
Cookies == {"c1", " c2"}

\* String.prototype.trim on the content of the session file.
Trim(data) == IF data = " c2" THEN "c2" ELSE data

\* What a tool call ended with: execute returned a text content, or the
\* promise it returned was rejected.
Text(t) == [kind |-> "text", text |-> t]
Rejected(e) == [kind |-> "rejected", error |-> e]
Pending == [kind |-> "pending"]

NotAuthenticatedError == [text |-> "Not authenticated. Please authenticate first."]
ApiRequestError == [text |-> "API request failed with status"]
RangeError == [name |-> "RangeError", text |-> "Invalid time value"]

\* getLighthousePortfolio wraps its body in try/catch; the other data tools
\* let an exception of an awaited call reject execute.
ToolFails(tool, e) ==
    IF tool = "getLighthousePortfolio"
    THEN Text([title |-> "Failed to fetch Lighthouse portfolio", message |-> e])
    ELSE Rejected(e)

Continue(t) == [task |-> t, out |-> Pending]
Done(o) == [task |-> Idle, out |-> o]

\* The user's portfolios at the remote service.
SamplePortfolios ==
    {<<>>,
     <<[slug |-> 1, name |-> Main]>>,
     <<[slug |-> 1, name |-> Main], [slug |-> 2, name |-> Trading]>>}

PortfolioArgs == {Undefined, <<"r","a","d">>, <<"n","o","p","e">>}

StartDates == {"undefined", "2024-01-01", "not a date"}

\* The latest snapshot of the portfolio `slug` at the remote service.
SampleSnapshot(slug) ==
    [usdValue |-> 1000 * slug,
     accounts |-> [i \in 1..slug |-> [id |-> i, name |-> "Ledger", type |-> "WALLET"]],
     positions |-> PositionsOf([i \in 1..slug |->
                       [symbol |-> "DAI", type |-> "STABLECOIN",
                        amount |-> 1001, usdValue |-> 1000]],
                     1, [i \in 1..slug |-> 1])]

\* Yield responses: every leg paired, a supply leg without its receive leg, a
\* receive leg without its supply leg.
SampleYields ==
    {[pools |-> <<PoolOf(1, [supply |-> 1, receive |-> 1, borrow |-> 1, pay |-> 1])>>],
     [pools |-> <<PoolOf(1, [supply |-> 1, receive |-> 0, borrow |-> 0, pay |-> 0])>>],
     [pools |-> <<PoolOf(1, [supply |-> 0, receive |-> 1, borrow |-> 0, pay |-> 0])>>]}

SamplePerformance ==
    [usdValueChange |-> 50, lastSnapshotUsdValue |-> 1000,
     changeByType |-> SampleChangeByType,
     gainers |-> ItemsOf("G", <<[prevUsdValue |-> 0, currUsdValue |-> 30, diffUsdValue |-> 30]>>),
     losers |-> ItemsOf("L", <<[prevUsdValue |-> 50, currUsdValue |-> 30, diffUsdValue |-> -20]>>)]

\* Lighthouse.isAuthenticated
isAuthenticated == sessionCookie # Null

\* Lighthouse.loadSession: the trimmed content of the session file, null when
\* the file is missing or blank.
loadSession == IF sessionFile = Null \/ Trim(sessionFile) = "" THEN Null ELSE Trim(sessionFile)

\* The start of a data tool: the checks made before the first request
\* (the tool's own isAuthenticated test, then getUserData's session test).
\* `cookie` is the session cookie fetcher puts in the request's header.
StartOf(tool, portfolioName, startDate) ==
    IF tool = "getLighthousePortfolio" /\ ~isAuthenticated
    THEN Done(Text([title |-> "No session cookie available. Please authenticate first."]))
    ELSE IF tool = "getLighthouseYieldData" /\ ~isAuthenticated
    THEN Done(Text([title |-> "Not authenticated. Please authenticate first."]))
    ELSE IF sessionCookie = Null
    THEN Done(ToolFails(tool, NotAuthenticatedError))
    ELSE Continue([pc |-> "getUserData", tool |-> tool, cookie |-> sessionCookie,
                   portfolioName |-> portfolioName, startDate |-> startDate])

\* listLighthousePortfolios.execute: the text rendered from the snapshots, the
\* i-th section made of the i-th portfolio's name and the i-th snapshot.
PortfoliosListing(portfolios, porfolioData) ==
    [title |-> "Lighthouse Portfolios",
     sections |-> [i \in 1..Len(porfolioData) |->
                     [name |-> portfolios[i].name,
                      usdValue |-> porfolioData[i].usdValue,
                      wallets |-> porfolioData[i].accounts]],
     totalPortfolioValue |->
         SumInts([i \in 1..Len(porfolioData) |-> porfolioData[i].usdValue])]

\* What follows the user data in listLighthousePortfolios: getPortfolioData is
\* called for every portfolio at once and each call tests the session.
AfterUserDataList(t, portfolios) ==
    IF portfolios = <<>>
    THEN Done(Text(PortfoliosListing(portfolios, <<>>)))
    ELSE IF sessionCookie = Null
    THEN Done(Rejected(NotAuthenticatedError))
    ELSE Continue([pc |-> "getPortfolioData*", tool |-> t.tool,
                   cookie |-> sessionCookie,
                   portfolios |-> portfolios,
                   pending |-> 1..Len(portfolios),
                   settled |-> <<>>,
                   porfolioData |-> [i \in 1..Len(portfolios) |-> Null]])

\* What follows the user data in the tools that take a portfolio name:
\* findPortfolio picks the portfolio, then the tool requests its data.
AfterUserDataFind(t, portfolios) ==
    LET found == FindPortfolio(portfolios, t.portfolioName)
        next == [pc |-> "getData", tool |-> t.tool, cookie |-> sessionCookie,
                 portfolio |-> [slug |-> found.slug, name |-> found.name]]
    IN  IF ~found.ok THEN Done(ToolFails(t.tool, found.error))
        ELSE IF t.tool = "getLighthousePerformanceData"
        THEN (IF t.startDate = "not a date" THEN Done(Rejected(RangeError))
              ELSE Continue(next))
        ELSE IF sessionCookie = Null THEN Done(ToolFails(t.tool, NotAuthenticatedError))
        ELSE Continue(next)

\* The text a tool renders from the data it fetched, or its failure.
AfterData(t, data) ==
    IF t.tool = "getLighthousePortfolio"
    THEN Done(Text([title |-> "Lighthouse Portfolio Summary", name |-> t.portfolio.name,
                    summary |-> PortfolioSummary(data)]))
    ELSE IF t.tool = "getLighthouseYieldData"
    THEN (IF YieldReport(data).ok
          THEN Done(Text([title |-> "Yield", name |-> t.portfolio.name,
                          report |-> YieldReport(data)]))
          ELSE Done(Rejected(YieldReport(data).error)))
    ELSE Done(Text([title |-> "Performance Data", name |-> t.portfolio.name,
                    report |-> PerformanceReport(data)]))

\* The responses the remote service may give to a tool's data request.
DataResponses(t) ==
    IF t.tool = "getLighthousePortfolio" THEN {SampleSnapshot(t.portfolio.slug)}
    ELSE IF t.tool = "getLighthouseYieldData" THEN SampleYields
    ELSE {SamplePerformance}

\* How a request to the remote service ends: a response with an OK status, a
\* response with another status, no response at all.
FetchOutcomes == {"ok", "status", "network error"}

NetworkError == [text |-> "fetch failed"]

FetchError(outcome) == IF outcome = "status" THEN ApiRequestError ELSE NetworkError

\* `granted` remembers the cookie of the last authenticate that returned
\* success, until logout is called.
NoCalls == [kind |-> "calls", tool |-> Pending, authenticate |-> Pending,
            granted |-> Null]

NoSessionTask == [authenticate |-> Idle, logout |-> Idle]

\* index.ts: `await lighthouse.initialize()` runs before the server starts, so
\* the first tool call sees what loadSession found.
Init ==
    /\ sessionFile \in {Null} \cup Cookies
    /\ sessionCookie = loadSession
    /\ task = Idle
    /\ authTask = NoSessionTask
    /\ result = NoCalls
    /\ \E portfolios \in SamplePortfolios :
          input = [kind |-> "remote", portfolios |-> portfolios]

Apply(step) ==
    /\ task' = step.task
    /\ result' = [result EXCEPT !.tool = step.out]

listLighthousePortfolios ==
    /\ task = Idle
    /\ Apply(StartOf("listLighthousePortfolios", Undefined, "undefined"))
    /\ UNCHANGED <<sessionCookie, sessionFile, authTask, input>>

getLighthousePortfolio ==
    /\ task = Idle
    /\ \E portfolioName \in PortfolioArgs :
          Apply(StartOf("getLighthousePortfolio", portfolioName, "undefined"))
    /\ UNCHANGED <<sessionCookie, sessionFile, authTask, input>>

getLighthouseYieldData ==
    /\ task = Idle
    /\ \E portfolioName \in PortfolioArgs :
          Apply(StartOf("getLighthouseYieldData", portfolioName, "undefined"))
    /\ UNCHANGED <<sessionCookie, sessionFile, authTask, input>>

getLighthousePerformanceData ==
    /\ task = Idle
    /\ \E portfolioName \in PortfolioArgs, startDate \in StartDates :
          Apply(StartOf("getLighthousePerformanceData", portfolioName, startDate))
    /\ UNCHANGED <<sessionCookie, sessionFile, authTask, input>>

\* The request of getUserData ends and the tool runs on to its next request.
GetUserDataResponds ==
    /\ task.pc = "getUserData"
    /\ \E outcome \in FetchOutcomes :
          Apply(IF outcome # "ok" THEN Done(ToolFails(task.tool, FetchError(outcome)))
                ELSE IF task.tool = "listLighthousePortfolios"
                THEN AfterUserDataList(task, input.portfolios)
                ELSE AfterUserDataFind(task, input.portfolios))
    /\ UNCHANGED <<sessionCookie, sessionFile, authTask, input>>

\* A slip: the snapshots are collected in the order in which the requests end.
PromiseAllInCompletionOrder(t, i, value) ==
    [t.porfolioData EXCEPT ![Len(t.settled) + 1] = value]

\* Promise.all: the value of the i-th promise becomes the i-th element of the
\* array it resolves to, whenever that promise settles.
PromiseAll(t, i, value) == [t.porfolioData EXCEPT ![i] = value]

\* One of the getPortfolioData requests of listLighthousePortfolios ends; they
\* end in any order and the first failure rejects Promise.all.  `settled`
\* remembers the order in which the requests ended.
GetPortfolioDataResponds ==
    /\ task.pc = "getPortfolioData*"
    /\ \E i \in task.pending, outcome \in FetchOutcomes :
          LET data == PromiseAll(task, i, SampleSnapshot(task.portfolios[i].slug))
              settled == Append(task.settled, i)
          IN  Apply(IF outcome # "ok" THEN Done(Rejected(FetchError(outcome)))
                    ELSE IF task.pending = {i}
                    THEN Done([kind |-> "text",
                               text |-> PortfoliosListing(task.portfolios, data),
                               settled |-> settled])
                    ELSE Continue([task EXCEPT !.pending = @ \ {i},
                                               !.settled = settled,
                                               !.porfolioData = data]))
    /\ UNCHANGED <<sessionCookie, sessionFile, authTask, input>>

\* The data request of a tool that took a portfolio name ends.
GetDataResponds ==
    /\ task.pc = "getData"
    /\ \E outcome \in FetchOutcomes, data \in DataResponses(task) :
          Apply(IF outcome # "ok" THEN Done(ToolFails(task.tool, FetchError(outcome)))
                ELSE AfterData(task, data))
    /\ UNCHANGED <<sessionCookie, sessionFile, authTask, input>>

\* The transfer URLs: one that carries a token, one that carries none, one
\* that `new URL` cannot parse.
TransferUrls == {"with token", "without token", "unparsable"}

AuthenticateReturns(success, message) ==
    [result EXCEPT !.authenticate =
        [kind |-> "text", text |-> message, success |-> success]]

\* The catch block of Lighthouse.authenticate up to its awaited unlink.
AuthenticateCatches(message) ==
    /\ sessionCookie' = Null
    /\ authTask' = [authTask EXCEPT !.authenticate =
                       [pc |-> "unlink", message |-> message]]

\* The authenticate tool: Lighthouse.authenticate up to its first await.
authenticate ==
    /\ authTask.authenticate = Idle
    /\ \E url \in TransferUrls :
          \/ /\ url = "unparsable"
             /\ AuthenticateCatches("Authentication failed: Invalid URL")
             /\ result' = [result EXCEPT !.authenticate = Pending]
          \/ /\ url = "without token"
             /\ result' = AuthenticateReturns(FALSE, "No token found in URL")
             /\ UNCHANGED <<sessionCookie, authTask>>
          \/ /\ url = "with token"
             /\ authTask' = [authTask EXCEPT !.authenticate = [pc |-> "fetch"]]
             /\ result' = [result EXCEPT !.authenticate = Pending]
             /\ UNCHANGED sessionCookie
    /\ UNCHANGED <<sessionFile, task, input>>

\* The login request ends: a session cookie is set, or the request failed, or
\* the response has another status, or it carries no lh_session cookie.
LoginResponds ==
    /\ authTask.authenticate.pc = "fetch"
    /\ \/ \E cookie \in Cookies :
             /\ sessionCookie' = cookie
             /\ authTask' = [authTask EXCEPT !.authenticate =
                                [pc |-> "writeFile", cookie |-> cookie]]
       \/ \E message \in {"Authentication failed: fetch failed",
                          "Authentication failed: Login failed with status",
                          "Authentication failed: No session cookie found in response"} :
             AuthenticateCatches(message)
    /\ UNCHANGED <<sessionFile, task, result, input>>

\* saveSession(cookie) of authenticate ends: the file holds the cookie, or the
\* write failed and the catch block runs.
WriteFileCompletes ==
    /\ authTask.authenticate.pc = "writeFile"
    /\ \/ /\ sessionFile' = authTask.authenticate.cookie
          /\ authTask' = [authTask EXCEPT !.authenticate = Idle]
          /\ result' = [AuthenticateReturns(TRUE, "Successfully authenticated with Lighthouse")
                           EXCEPT !.granted = authTask.authenticate.cookie]
          /\ UNCHANGED sessionCookie
       \/ /\ AuthenticateCatches("Authentication failed: write failed")
          /\ UNCHANGED <<sessionFile, result>>
    /\ UNCHANGED <<task, input>>

\* saveSession(null) of the catch block ends; an error of unlink is ignored
\* and leaves the file as it is.
UnlinkCompletes ==
    /\ authTask.authenticate.pc = "unlink"
    /\ sessionFile' \in {Null, sessionFile}
    /\ authTask' = [authTask EXCEPT !.authenticate = Idle]
    /\ result' = AuthenticateReturns(FALSE, authTask.authenticate.message)
    /\ UNCHANGED <<sessionCookie, task, input>>

\* Lighthouse.logout up to its awaited unlink.  No tool calls it; it is the
\* class's public method.
logout ==
    /\ authTask.logout = Idle
    /\ sessionCookie' = Null
    /\ authTask' = [authTask EXCEPT !.logout = [pc |-> "unlink"]]
    /\ result' = [result EXCEPT !.granted = Null]
    /\ UNCHANGED <<sessionFile, task, input>>

LogoutUnlinkCompletes ==
    /\ authTask.logout.pc = "unlink"
    /\ sessionFile' \in {Null, sessionFile}
    /\ authTask' = [authTask EXCEPT !.logout = Idle]
    /\ UNCHANGED <<sessionCookie, task, result, input>>

\* The process restarts: a new Lighthouse is constructed and initialize()
\* loads the session file; a file that cannot be read counts as no session.
initialize ==
    /\ sessionCookie' \in {loadSession, Null}
    /\ task' = Idle
    /\ authTask' = NoSessionTask
    /\ result' = [NoCalls EXCEPT !.granted = result.granted]
    /\ UNCHANGED <<sessionFile, input>>

Next ==
    \/ listLighthousePortfolios
    \/ getLighthousePortfolio
    \/ getLighthouseYieldData
    \/ getLighthousePerformanceData
    \/ GetUserDataResponds
    \/ GetPortfolioDataResponds
    \/ GetDataResponds
    \/ authenticate
    \/ LoginResponds
    \/ WriteFileCompletes
    \/ UnlinkCompletes
    \/ logout
    \/ LogoutUnlinkCompletes
    \/ initialize

Spec == Init /\ [][Next]_vars

\* C1: every call of a tool's execute ends by returning a text content; it
\* never ends with its promise rejected, whatever failed on the way (no
\* session, a failed request, an unknown portfolio, a malformed response).
C1_ToolsAnswerWithText ==
    /\ result.kind = "calls" => result.tool.kind # "rejected"
    /\ result.kind = "calls" => result.authenticate.kind # "rejected"

ListingDone ==
    /\ result.kind = "calls"
    /\ result.tool.kind = "text"
    /\ result.tool.text.title = "Lighthouse Portfolios"

\* C13: whatever the order in which the snapshot requests of
\* listLighthousePortfolios end, the i-th section shown carries the name of
\* the i-th portfolio of the user's list with the usdValue and the accounts of
\* the snapshot of that portfolio's slug, and the grand total is the sum of
\* the usdValue of all the snapshots fetched.
C13_SectionsFollowRequestOrder ==
    ListingDone =>
        LET portfolios == input.portfolios
            sections == result.tool.text.sections
        IN  /\ Len(sections) = Len(portfolios)
            /\ \A i \in 1..Len(portfolios) :
                  /\ sections[i].name = portfolios[i].name
                  /\ sections[i].usdValue = SampleSnapshot(portfolios[i].slug).usdValue
                  /\ sections[i].wallets = SampleSnapshot(portfolios[i].slug).accounts
            /\ result.tool.text.totalPortfolioValue =
                  SumInts([i \in 1..Len(portfolios) |->
                              SampleSnapshot(portfolios[i].slug).usdValue])

\* C13 witness: a listing of two portfolios whose second snapshot request
\* ended before the first.
C13_Witness ==
    /\ ListingDone
    /\ Len(input.portfolios) = 2
    /\ result.tool.settled = <<2, 1>>
    /\ result.tool.text.sections[1].usdValue # result.tool.text.sections[2].usdValue

\* No authenticate, logout or initialize call is in flight.
SessionQuiet == authTask = NoSessionTask

\* C15: once an authenticate call has succeeded and as long as logout is not
\* called, the user stays authenticated with the session of the last
\* successful authenticate, through further authenticate attempts and through
\* restarts of the server.
C15_StaysAuthenticated ==
    (result.kind = "calls" /\ result.granted # Null /\ SessionQuiet) =>
        /\ isAuthenticated
        /\ sessionCookie = result.granted

\* A request of the running tool call is in flight; task.cookie is the session
\* cookie fetcher read when it sent the request.
RequestInFlight == task.pc \in {"getUserData", "getPortfolioData*", "getData"}

\* C16: no request is sent through fetcher while the session cookie is null,
\* also when a failing authenticate or a logout clears the session between the
\* awaited steps of a running tool call.
C16_NoRequestWithoutSession ==
    RequestInFlight => task.cookie # Null

\* C17: once no authenticate, logout or initialize call is in flight, the
\* session file exists if and only if the in-memory session cookie is not
\* null, and then its content is that cookie.
C17_FileAgreesWithMemory ==
    SessionQuiet =>
        /\ (sessionFile # Null) <=> (sessionCookie # Null)
        /\ sessionFile # Null => sessionFile = sessionCookie

\* The step in which an authenticate call returns.
AuthenticateReturnsNow ==
    /\ result.authenticate.kind = "pending"
    /\ result'.authenticate.kind = "text"

\* C18: when authenticate returns success = false the in-memory session
\* cookie is null and the session file is absent, whatever made it fail and
\* whatever session existed before; when it returns success = true the
\* in-memory cookie is the lh_session value of the login response and the
\* session file holds it.
C18_FailureClearsSession ==
    [][AuthenticateReturnsNow =>
          IF result'.authenticate.success
          THEN /\ sessionCookie' = authTask.authenticate.cookie
               /\ sessionFile' = authTask.authenticate.cookie
          ELSE /\ sessionCookie' = Null
               /\ sessionFile' = Null]_vars

=============================================================================
